---- MODULE Spec2Model ----
(***************************************************************************)
(* Odds-enrichment pipeline of nfl/odds_schedule.py: team normalisation,   *)
(* market extraction from the provider payload, live merge, historical     *)
(* backfill and provenance tagging.                                        *)
(*                                                                         *)
(* Representation.  A Python string is a sequence of one-character         *)
(* strings.  A nullable value is None (the empty tuple) or Some(v) (a      *)
(* one-element tuple), so that None differs from the empty string.         *)
(* A dict with optional keys is a function whose DOMAIN is the set of keys *)
(* present.  A DataFrame is a record [cols, rows]: the set of column       *)
(* names and the sequence of rows, each a function on cols.                *)
(***************************************************************************)
EXTENDS Integers, Sequences, FiniteSets, TLC

VARIABLES
    name,                 \* _normalize_team: the argument
    normalized,           \* _normalize_team: results of successive applications
    events,               \* _odds_json_to_frame: the events argument
    bookmaker_preference, \* argument of _odds_json_to_frame / fetch_schedule_odds
    pc,                   \* position in the operation under way
    schedule,             \* fetch_schedule_odds: the caller's schedule
    api_key,              \* fetch_schedule_odds: the provider key
    historical_csv,       \* fetch_schedule_odds: the historical path or None
    sched,                \* the normalised copy of the schedule
    response,             \* what the provider answered, None before the call
    calls,                \* number of provider calls made
    latest,               \* the live-odds frame
    merged,               \* the frame being enriched and finally returned
    file,                 \* what is at historical_csv on disk, None before access
    reads,                \* number of pd.read_csv calls made
    hist,                 \* result of _prepare_historical_lines
    error                 \* the exception that escaped, or None

normVars == <<name, normalized>>
extractVars == <<events>>
enrichVars == <<schedule, api_key, historical_csv, sched, response, calls,
                merged, file, reads, hist, error>>
vars == <<name, normalized, events, bookmaker_preference, pc, schedule, api_key,
          historical_csv, sched, response, calls, latest, merged, file, reads,
          hist, error>>

None == <<>>
Some(v) == <<v>>

(***************************************************************************)
(* str.upper / str.lower on ASCII text.                                    *)
(***************************************************************************)
LowerToUpper ==
       ("a" :> "A")
    @@ ("b" :> "B")
    @@ ("c" :> "C")
    @@ ("d" :> "D")
    @@ ("e" :> "E")
    @@ ("f" :> "F")
    @@ ("g" :> "G")
    @@ ("h" :> "H")
    @@ ("i" :> "I")
    @@ ("j" :> "J")
    @@ ("k" :> "K")
    @@ ("l" :> "L")
    @@ ("m" :> "M")
    @@ ("n" :> "N")
    @@ ("o" :> "O")
    @@ ("p" :> "P")
    @@ ("q" :> "Q")
    @@ ("r" :> "R")
    @@ ("s" :> "S")
    @@ ("t" :> "T")
    @@ ("u" :> "U")
    @@ ("v" :> "V")
    @@ ("w" :> "W")
    @@ ("x" :> "X")
    @@ ("y" :> "Y")
    @@ ("z" :> "Z")

UpperChar(c) == IF c \in DOMAIN LowerToUpper THEN LowerToUpper[c] ELSE c

LowerChar(c) ==
    IF \E l \in DOMAIN LowerToUpper : LowerToUpper[l] = c
    THEN CHOOSE l \in DOMAIN LowerToUpper : LowerToUpper[l] = c
    ELSE c

upper(s) == [i \in 1..Len(s) |-> UpperChar(s[i])]

lower(s) == [i \in 1..Len(s) |-> LowerChar(s[i])]

(***************************************************************************)
(* Lookup tables.                                                          *)
(***************************************************************************)
ODDS_TEAM_NAME_TO_ABBR ==
       (<<"A","r","i","z","o","n","a"," ","C","a","r","d","i","n","a","l","s">> :> <<"A","R","I">>)
    @@ (<<"A","t","l","a","n","t","a"," ","F","a","l","c","o","n","s">> :> <<"A","T","L">>)
    @@ (<<"B","a","l","t","i","m","o","r","e"," ","R","a","v","e","n","s">> :> <<"B","A","L">>)
    @@ (<<"B","u","f","f","a","l","o"," ","B","i","l","l","s">> :> <<"B","U","F">>)
    @@ (<<"C","a","r","o","l","i","n","a"," ","P","a","n","t","h","e","r","s">> :> <<"C","A","R">>)
    @@ (<<"C","h","i","c","a","g","o"," ","B","e","a","r","s">> :> <<"C","H","I">>)
    @@ (<<"C","i","n","c","i","n","n","a","t","i"," ","B","e","n","g","a","l","s">> :> <<"C","I","N">>)
    @@ (<<"C","l","e","v","e","l","a","n","d"," ","B","r","o","w","n","s">> :> <<"C","L","E">>)
    @@ (<<"D","a","l","l","a","s"," ","C","o","w","b","o","y","s">> :> <<"D","A","L">>)
    @@ (<<"D","e","n","v","e","r"," ","B","r","o","n","c","o","s">> :> <<"D","E","N">>)
    @@ (<<"D","e","t","r","o","i","t"," ","L","i","o","n","s">> :> <<"D","E","T">>)
    @@ (<<"G","r","e","e","n"," ","B","a","y"," ","P","a","c","k","e","r","s">> :> <<"G","B">>)
    @@ (<<"H","o","u","s","t","o","n"," ","T","e","x","a","n","s">> :> <<"H","O","U">>)
    @@ (<<"I","n","d","i","a","n","a","p","o","l","i","s"," ","C","o","l","t","s">> :> <<"I","N","D">>)
    @@ (<<"J","a","c","k","s","o","n","v","i","l","l","e"," ","J","a","g","u","a","r","s">> :> <<"J","A","X">>)
    @@ (<<"K","a","n","s","a","s"," ","C","i","t","y"," ","C","h","i","e","f","s">> :> <<"K","C">>)
    @@ (<<"L","a","s"," ","V","e","g","a","s"," ","R","a","i","d","e","r","s">> :> <<"L","V">>)
    @@ (<<"L","o","s"," ","A","n","g","e","l","e","s"," ","C","h","a","r","g","e","r","s">> :> <<"L","A","C">>)
    @@ (<<"L","o","s"," ","A","n","g","e","l","e","s"," ","R","a","m","s">> :> <<"L","A","R">>)
    @@ (<<"M","i","a","m","i"," ","D","o","l","p","h","i","n","s">> :> <<"M","I","A">>)
    @@ (<<"M","i","n","n","e","s","o","t","a"," ","V","i","k","i","n","g","s">> :> <<"M","I","N">>)
    @@ (<<"N","e","w"," ","E","n","g","l","a","n","d"," ","P","a","t","r","i","o","t","s">> :> <<"N","E">>)
    @@ (<<"N","e","w"," ","O","r","l","e","a","n","s"," ","S","a","i","n","t","s">> :> <<"N","O">>)
    @@ (<<"N","e","w"," ","Y","o","r","k"," ","G","i","a","n","t","s">> :> <<"N","Y","G">>)
    @@ (<<"N","e","w"," ","Y","o","r","k"," ","J","e","t","s">> :> <<"N","Y","J">>)
    @@ (<<"P","h","i","l","a","d","e","l","p","h","i","a"," ","E","a","g","l","e","s">> :> <<"P","H","I">>)
    @@ (<<"P","i","t","t","s","b","u","r","g","h"," ","S","t","e","e","l","e","r","s">> :> <<"P","I","T">>)
    @@ (<<"S","e","a","t","t","l","e"," ","S","e","a","h","a","w","k","s">> :> <<"S","E","A">>)
    @@ (<<"S","a","n"," ","F","r","a","n","c","i","s","c","o"," ","4","9","e","r","s">> :> <<"S","F">>)
    @@ (<<"T","a","m","p","a"," ","B","a","y"," ","B","u","c","c","a","n","e","e","r","s">> :> <<"T","B">>)
    @@ (<<"T","e","n","n","e","s","s","e","e"," ","T","i","t","a","n","s">> :> <<"T","E","N">>)
    @@ (<<"W","a","s","h","i","n","g","t","o","n"," ","C","o","m","m","a","n","d","e","r","s">> :> <<"W","A","S">>)

TEAM_ABBR_FIXES ==
       (<<"A","R","I">> :> <<"A","R","I">>)
    @@ (<<"B","L","T">> :> <<"B","A","L">>)
    @@ (<<"B","A","L">> :> <<"B","A","L">>)
    @@ (<<"C","L","V">> :> <<"C","L","E">>)
    @@ (<<"C","L","E">> :> <<"C","L","E">>)
    @@ (<<"G","B","P">> :> <<"G","B">>)
    @@ (<<"G","N","B">> :> <<"G","B">>)
    @@ (<<"G","B">> :> <<"G","B">>)
    @@ (<<"H","S","T">> :> <<"H","O","U">>)
    @@ (<<"H","O","U">> :> <<"H","O","U">>)
    @@ (<<"J","A","C">> :> <<"J","A","X">>)
    @@ (<<"J","A","X">> :> <<"J","A","X">>)
    @@ (<<"K","A","N">> :> <<"K","C">>)
    @@ (<<"K","C">> :> <<"K","C">>)
    @@ (<<"L","A">> :> <<"L","A","R">>)
    @@ (<<"L","A","R">> :> <<"L","A","R">>)
    @@ (<<"S","D">> :> <<"L","A","C">>)
    @@ (<<"L","A","C">> :> <<"L","A","C">>)
    @@ (<<"O","A","K">> :> <<"L","V">>)
    @@ (<<"L","V","R">> :> <<"L","V">>)
    @@ (<<"L","V">> :> <<"L","V">>)
    @@ (<<"N","O","R">> :> <<"N","O">>)
    @@ (<<"N","O">> :> <<"N","O">>)
    @@ (<<"N","W","E">> :> <<"N","E">>)
    @@ (<<"N","E">> :> <<"N","E">>)
    @@ (<<"S","F","O">> :> <<"S","F">>)
    @@ (<<"S","F">> :> <<"S","F">>)
    @@ (<<"S","T","L">> :> <<"L","A","R">>)
    @@ (<<"T","A","M">> :> <<"T","B">>)
    @@ (<<"T","B">> :> <<"T","B">>)
    @@ (<<"W","F","T">> :> <<"W","A","S">>)
    @@ (<<"W","S","H">> :> <<"W","A","S">>)
    @@ (<<"W","A","S">> :> <<"W","A","S">>)

HISTORICAL_NAME_MAP ==
       ("ml_home" :> "home_moneyline")
    @@ ("ml_away" :> "away_moneyline")
    @@ ("moneyline_home" :> "home_moneyline")
    @@ ("moneyline_away" :> "away_moneyline")
    @@ ("home_ml" :> "home_moneyline")
    @@ ("away_ml" :> "away_moneyline")
    @@ ("spread" :> "spread_line")
    @@ ("spread_home" :> "spread_line")
    @@ ("total" :> "total_line")
    @@ ("game_total" :> "total_line")
    @@ ("over" :> "over_odds")
    @@ ("under" :> "under_odds")


ODDS_VALUE_COLUMNS ==
    <<"home_moneyline", "away_moneyline", "spread_line", "home_spread_odds",
      "away_spread_odds", "total_line", "over_odds", "under_odds">>

OddsCols == {ODDS_VALUE_COLUMNS[i] : i \in 1..Len(ODDS_VALUE_COLUMNS)}

(***************************************************************************)
(* _normalize_team(name): name is None or Some(string).                    *)
(***************************************************************************)
\* variant: the fall-through returns the uppercased text instead of the input
_normalize_team_ReturnsUpper(n) ==
    IF n = None THEN None
    ELSE IF n[1] \in DOMAIN ODDS_TEAM_NAME_TO_ABBR
         THEN Some(ODDS_TEAM_NAME_TO_ABBR[n[1]])
    ELSE IF upper(n[1]) \in DOMAIN TEAM_ABBR_FIXES
         THEN Some(TEAM_ABBR_FIXES[upper(n[1])])
    ELSE Some(upper(n[1]))

_normalize_team(n) ==
    IF n = None THEN None
    ELSE IF n[1] \in DOMAIN ODDS_TEAM_NAME_TO_ABBR
         THEN Some(ODDS_TEAM_NAME_TO_ABBR[n[1]])
    ELSE IF upper(n[1]) \in DOMAIN TEAM_ABBR_FIXES
         THEN Some(TEAM_ABBR_FIXES[upper(n[1])])
    ELSE n

(***************************************************************************)
(* Python truthiness of a nullable string, dict access helpers and the     *)
(* DataFrame constructor.                                                  *)
(***************************************************************************)
Falsy(s) == s = None \/ s = Some(<<>>)

Set(row, k, v) == (k :> v) @@ row

SetDefault(row, k, v) == row @@ (k :> v)

Frame(cols, rws) == [cols |-> cols, rows |-> rws]

DataFrame(dicts) ==
    LET cols == UNION {DOMAIN dicts[i] : i \in 1..Len(dicts)}
    IN  Frame(cols,
              [i \in 1..Len(dicts) |->
                  [c \in cols |-> IF c \in DOMAIN dicts[i] THEN dicts[i][c] ELSE None]])

(***************************************************************************)
(* _select_bookmaker, _find_market, _find_outcome: first match or None.    *)
(***************************************************************************)
_select_bookmaker(bookmakers, preference) ==
    IF bookmakers = <<>> THEN None
    ELSE LET hits == {i \in 1..Len(bookmakers) :
                         /\ ~Falsy(preference)
                         /\ lower(bookmakers[i].key) = lower(preference[1])}
         IN  IF hits # {}
             THEN Some(bookmakers[CHOOSE i \in hits : \A j \in hits : i <= j])
             ELSE Some(bookmakers[1])

_find_market(bookmaker, market_key) ==
    LET hits == {i \in 1..Len(bookmaker.markets) : bookmaker.markets[i].key = market_key}
    IN  IF hits = {} THEN None
        ELSE Some(bookmaker.markets[CHOOSE i \in hits : \A j \in hits : i <= j])

_find_outcome(market, target) ==
    LET hits == {i \in 1..Len(market.outcomes) : market.outcomes[i].name = target}
    IN  IF hits = {} THEN None
        ELSE Some(market.outcomes[CHOOSE i \in hits : \A j \in hits : i <= j])

Over == <<"O","v","e","r">>
Under == <<"U","n","d","e","r">>

(***************************************************************************)
(* _odds_json_to_frame, one event: the three market blocks, then the whole *)
(* loop body.  A skipped event yields None.                                *)
(***************************************************************************)
Moneylines(row, bookmaker, home_full, away_full) ==
    LET h2h == _find_market(bookmaker, "h2h")
    IN  IF h2h = None THEN row
        ELSE LET home_ml == _find_outcome(h2h[1], home_full)
                 away_ml == _find_outcome(h2h[1], away_full)
                 r1 == Set(row, "home_moneyline",
                           IF home_ml # None THEN home_ml[1].price ELSE None)
             IN  Set(r1, "away_moneyline",
                     IF away_ml # None THEN away_ml[1].price ELSE None)

Spreads(row, bookmaker, home_full, away_full) ==
    LET spreads == _find_market(bookmaker, "spreads")
    IN  IF spreads = None THEN row
        ELSE LET home_spread == _find_outcome(spreads[1], home_full)
                 away_spread == _find_outcome(spreads[1], away_full)
                 r1 == IF home_spread # None
                       THEN Set(Set(row, "spread_line", home_spread[1].point),
                                "home_spread_odds", home_spread[1].price)
                       ELSE row
             IN  IF away_spread # None
                 THEN Set(SetDefault(r1, "spread_line", away_spread[1].point),
                          "away_spread_odds", away_spread[1].price)
                 ELSE r1

Totals(row, bookmaker) ==
    LET totals == _find_market(bookmaker, "totals")
    IN  IF totals = None THEN row
        ELSE LET over == _find_outcome(totals[1], Over)
                 under == _find_outcome(totals[1], Under)
                 r1 == IF over # None
                       THEN Set(Set(row, "total_line", over[1].point),
                                "over_odds", over[1].price)
                       ELSE row
             IN  IF under # None
                 THEN Set(SetDefault(r1, "total_line", under[1].point),
                          "under_odds", under[1].price)
                 ELSE r1

AwayFull(event) ==
    LET others == {i \in 1..Len(event.teams) : event.teams[i] # event.home_team}
    IN  IF others = {} THEN None
        ELSE event.teams[CHOOSE i \in others : \A j \in others : i <= j]

EventRow(event, preference) ==
    LET home_full == event.home_team
        away_full == AwayFull(event)
        bookmaker == _select_bookmaker(event.bookmakers, preference)
    IN  IF Falsy(home_full) \/ Falsy(away_full) THEN None
        ELSE IF bookmaker = None THEN None
        ELSE LET row == ("home_team" :> _normalize_team(home_full))
                        @@ ("away_team" :> _normalize_team(away_full))
                        @@ ("commence_time" :> event.commence_time)
                        @@ ("odds_source" :> Some("odds_api"))
             IN  Some(Totals(Spreads(Moneylines(row, bookmaker[1], home_full[1], away_full[1]),
                                     bookmaker[1], home_full[1], away_full[1]),
                             bookmaker[1]))

RECURSIVE EventRows(_, _)
EventRows(evs, preference) ==
    IF evs = <<>> THEN <<>>
    ELSE LET r == EventRow(Head(evs), preference)
         IN  (IF r = None THEN <<>> ELSE <<r[1]>>) \o EventRows(Tail(evs), preference)

_odds_json_to_frame(evs, preference) ==
    LET rws == EventRows(evs, preference)
    IN  IF rws = <<>> THEN Frame({"home_team", "away_team"}, <<>>)
        ELSE DataFrame(rws)

(***************************************************************************)
(* DataFrame operations used by fetch_schedule_odds.                       *)
(***************************************************************************)
SeqToSet(s) == {s[i] : i \in 1..Len(s)}

RECURSIVE Flatten(_)
Flatten(ss) == IF ss = <<>> THEN <<>> ELSE Head(ss) \o Flatten(Tail(ss))

Project(frame, cols) ==
    Frame(cols, [i \in 1..Len(frame.rows) |-> [c \in cols |-> frame.rows[i][c]]])

dropna(frame, subset) ==
    Frame(frame.cols, SelectSeq(frame.rows, LAMBDA r : \A c \in subset : r[c] # None))

\* sort_values(col): nulls go last in their original order; the sort is not
\* stable, so rows with equal values may come out in any order.  The result
\* is the set of row orders the call can produce.
sort_values(frame, col) ==
    LET n == Len(frame.rows)
        v(i) == frame.rows[i][col]
        Sorted(p) ==
            \A i, j \in 1..n : i < j =>
                IF v(p[j]) = None
                THEN v(p[i]) = None => p[i] < p[j]
                ELSE v(p[i]) # None /\ v(p[i])[1] <= v(p[j])[1]
        perms == {p \in [1..n -> 1..n] : (\A i, j \in 1..n : p[i] = p[j] => i = j) /\ Sorted(p)}
    IN  {Frame(frame.cols, [i \in 1..n |-> frame.rows[p[i]]]) : p \in perms}

\* drop_duplicates(subset, keep="last")
drop_duplicates(frame, subset) ==
    LET n == Len(frame.rows)
        same(i, j) == \A c \in subset : frame.rows[i][c] = frame.rows[j][c]
        kept == {i \in 1..n : \A j \in (i + 1)..n : ~same(i, j)}
        RECURSIVE pick(_)
        pick(i) == IF i > n THEN <<>>
                   ELSE (IF i \in kept THEN <<frame.rows[i]>> ELSE <<>>) \o pick(i + 1)
    IN  Frame(frame.cols, pick(1))

\* left.merge(right, on=on, how="left", suffixes=(lsuffix, rsuffix))
merge(left, right, on, lsuffix, rsuffix) ==
    LET overlap == (left.cols \cap right.cols) \ on
        lname(c) == IF c \in overlap THEN c \o lsuffix ELSE c
        rname(c) == IF c \in overlap THEN c \o rsuffix ELSE c
        cols == {lname(c) : c \in left.cols} \cup {rname(c) : c \in right.cols \ on}
        joined(l, r) ==
            [c \in cols |->
                IF \E d \in left.cols : lname(d) = c
                THEN l[CHOOSE d \in left.cols : lname(d) = c]
                ELSE IF r = None THEN None
                ELSE r[1][CHOOSE d \in right.cols \ on : rname(d) = c]]
        matches(l) == SelectSeq(right.rows, LAMBDA r : \A k \in on : r[k] = l[k])
        expand(l) == IF matches(l) = <<>> THEN <<joined(l, None)>>
                     ELSE [i \in 1..Len(matches(l)) |-> joined(l, Some(matches(l)[i]))]
    IN  Frame(cols, Flatten([i \in 1..Len(left.rows) |-> expand(left.rows[i])]))

WithColumn(frame, col, value) ==
    Frame(frame.cols \cup {col},
          [i \in 1..Len(frame.rows) |->
              [c \in frame.cols \cup {col} |-> IF c = col THEN value ELSE frame.rows[i][c]]])

(***************************************************************************)
(* fetch_schedule_odds, stage by stage.                                    *)
(***************************************************************************)
required == {"season", "week", "home_team", "away_team"}

key_cols == <<"season", "week", "home_team", "away_team">>

team_cols == {"home_team", "away_team"}

\* sorted() on column names: lexicographic order of the four names.
sorted(S) == SelectSeq(<<"away_team", "home_team", "season", "week">>, LAMBDA c : c \in S)

\* variant: every required column is reported, present or not
missing_columns_AllRequired(sch) == required

missing_columns(sch) == required \ sch.cols

\* schedule.copy() with both team columns mapped through _normalize_team
normalize_teams(frame) ==
    Frame(frame.cols,
          [i \in 1..Len(frame.rows) |->
              [c \in frame.cols |->
                  IF c \in team_cols THEN _normalize_team(frame.rows[i][c])
                  ELSE frame.rows[i][c]]])

NoKeyFrame == Frame({"home_team", "away_team"}, <<>>)

\* variant: the frame built after a failed fetch carries a commence_time column
FailedFetchFrame_WithTime == Frame(SeqToSet(key_cols) \cup {"commence_time"}, <<>>)

FailedFetchFrame == Frame(SeqToSet(key_cols), <<>>)

\* _fetch_latest_odds on a provider response: requests.get, raise_for_status,
\* response.json() and _odds_json_to_frame each may raise.
_fetch_latest_odds(resp, preference) ==
    IF resp.kind = "network_error" THEN [raised |-> TRUE, frame |-> None]
    ELSE IF resp.kind = "http_error" THEN [raised |-> TRUE, frame |-> None]
    ELSE IF resp.kind = "malformed_json" THEN [raised |-> TRUE, frame |-> None]
    ELSE IF resp.kind = "malformed_payload" THEN [raised |-> TRUE, frame |-> None]
    ELSE [raised |-> FALSE, frame |-> _odds_json_to_frame(resp.data, preference)]

\* lines 305-309: the frames the dedup step can produce
dedup(frame) ==
    LET d == dropna(frame, team_cols)
    IN  IF d.rows # <<>> /\ "commence_time" \in d.cols
        THEN {drop_duplicates(s, team_cols) : s \in sort_values(d, "commence_time")}
        ELSE {d}

\* lines 310-321: left merge of the live odds, then the null odds columns
latest_cols(frame) ==
    team_cols \cup ((OddsCols \cup {"odds_source", "commence_time"}) \cap frame.cols)

RECURSIVE add_null_columns(_, _)
add_null_columns(frame, cols) ==
    IF cols = <<>> THEN frame
    ELSE add_null_columns(
             IF Head(cols) \in frame.cols THEN frame ELSE WithColumn(frame, Head(cols), None),
             Tail(cols))

live_merge(sch, lat) ==
    add_null_columns(merge(sch, Project(lat, latest_cols(lat)), team_cols, "_x", "_y"),
                     ODDS_VALUE_COLUMNS)

(***************************************************************************)
(* _prepare_historical_lines on a file-system entry                        *)
(* [exists, readable, table].  pd.read_csv raises on an unreadable file.   *)
(***************************************************************************)
renamed(c) == IF c \in DOMAIN HISTORICAL_NAME_MAP THEN HISTORICAL_NAME_MAP[c] ELSE c

rename(frame) ==
    LET cols == {renamed(c) : c \in frame.cols}
    IN  Frame(cols,
              [i \in 1..Len(frame.rows) |->
                  [c \in cols |-> frame.rows[i][CHOOSE d \in frame.cols : renamed(d) = c]]])

_prepare_historical_lines(historical_path, entry) ==
    IF Falsy(historical_path) \/ ~entry.exists
    THEN [raised |-> FALSE, hist |-> None]
    ELSE IF ~entry.readable
    THEN [raised |-> TRUE, hist |-> None]
    ELSE LET h == rename(entry.table)
         IN  IF required \ h.cols # {}
             THEN [raised |-> FALSE, hist |-> None]
             ELSE [raised |-> FALSE,
                   hist |-> Some(Project(normalize_teams(h),
                                         required \cup (OddsCols \cap h.cols)))]

\* variant: the fill ignores whether the live value is null
fill_mask_Overwrites(value, hist_value) == hist_value # None

\* lines 335-338, one cell: the mask of the fill
fill_mask(value, hist_value) == value = None /\ hist_value # None

\* lines 324-342: merge with the historical table, fill, drop the _hist
\* columns and tag the rows that were filled and carry no source yet
backfill(mrg, h) ==
    LET m == merge(mrg, h, required, "", "_hist")
        has_hist(c) == c \in OddsCols /\ (c \o "_hist") \in m.cols
        hist_cols == {c \o "_hist" : c \in {d \in OddsCols : has_hist(d)}}
        mask(r, c) == has_hist(c) /\ fill_mask(r[c], r[c \o "_hist"])
        filled_from_hist(r) == \E c \in OddsCols : mask(r, c)
        cols == (m.cols \ hist_cols) \cup {"odds_source"}
    IN  Frame(cols,
              [i \in 1..Len(m.rows) |->
                  LET r == m.rows[i]
                  IN  [c \in cols |->
                          IF c = "odds_source"
                          THEN IF "odds_source" \in m.cols /\ r[c] # None THEN r[c]
                               ELSE IF filled_from_hist(r) THEN Some("historical")
                               ELSE None
                          ELSE IF mask(r, c) THEN r[c \o "_hist"]
                          ELSE r[c]]])

no_backfill(mrg) ==
    IF "odds_source" \in mrg.cols THEN mrg ELSE WithColumn(mrg, "odds_source", None)

\* lines 347-349
tag_sources(mrg) ==
    Frame(mrg.cols,
          [i \in 1..Len(mrg.rows) |->
              LET r == mrg.rows[i]
                  still_missing == \A c \in OddsCols : r[c] = None
              IN  [c \in mrg.cols |->
                      IF c # "odds_source" THEN r[c]
                      ELSE IF still_missing THEN Some("missing")
                      ELSE IF r[c] = None THEN Some("odds_api")
                      ELSE r[c]]])

\* lines 323-350
finish(mrg, h) ==
    tag_sources(IF h # None /\ h[1].rows # <<>> THEN backfill(mrg, h[1])
                ELSE no_backfill(mrg))

(***************************************************************************)
(* Bounds and input universes.                                             *)
(***************************************************************************)
NormMaxLen == 2          \* longest generated word handed to _normalize_team
MaxExtractEvents == 1    \* events per payload when the extractor runs alone
MaxSchedule == 2         \* schedule rows
MaxEvents == 2           \* events in a provider answer
MaxHistRows == 2         \* rows of the historical file

SeqsUpTo(S, n) == UNION {[1..k -> S] : k \in 0..n}

CaseVariants(w) ==
    {[i \in 1..Len(w) |-> IF i \in L THEN LowerChar(w[i]) ELSE w[i]] : L \in SUBSET (1..Len(w))}

FullNames == DOMAIN ODDS_TEAM_NAME_TO_ABBR

Aliases == UNION {CaseVariants(k) : k \in DOMAIN TEAM_ABBR_FIXES}

NormAlphabet == {"G", "b", "N", "o", "."}

NormInputs ==
    {None} \cup
    {Some(w) : w \in FullNames \cup Aliases
                     \cup {lower(f) : f \in FullNames} \cup {upper(f) : f \in FullNames}
                     \cup SeqsUpTo(NormAlphabet, NormMaxLen)
                     \cup {<<"K","a","n","s","a","s"," ","C","i","t","y">>, <<"S","t","."," ","L","o","u","i","s"," ","R","a","m","s">>}}

Chiefs == <<"K","a","n","s","a","s"," ","C","i","t","y"," ","C","h","i","e","f","s">>
Broncos == <<"D","e","n","v","e","r"," ","B","r","o","n","c","o","s">>
KC == <<"K","C">>
KAN == <<"K","A","N">>
DEN == <<"D","E","N">>
Pinnacle == <<"p","i","n","n","a","c","l","e">>
FanDuel == <<"f","a","n","d","u","e","l">>

Outcome(nm, price, point) == [name |-> nm, price |-> price, point |-> point]
Market(k, outcomes) == [key |-> k, outcomes |-> outcomes]
Book(k, markets) == [key |-> k, markets |-> markets]
Event(home, teams, time, books) ==
    [home_team |-> home, teams |-> teams, commence_time |-> time, bookmakers |-> books]

\* an outcome that is absent, or present with or without a price and a point
Side(nm, price, point) ==
    {<<>>} \cup {<<Outcome(nm, p, q)>> : p \in {None, Some(price)}, q \in {None, Some(point)}}

H2H == Market("h2h", <<Outcome(Chiefs, Some(-150), None), Outcome(Broncos, Some(130), None)>>)

SpreadMarkets ==
    {Market("spreads", h \o a) : h \in Side(Chiefs, -110, -3), a \in Side(Broncos, -105, 3)}

TotalMarkets ==
    {Market("totals", o \o u) : o \in Side(Over, -108, 45), u \in Side(Under, -112, 46)}

ExtractMarketLists ==
    {<<>>} \cup {<<H2H, m>> : m \in SpreadMarkets} \cup {<<m>> : m \in TotalMarkets}

ExtractEvents ==
    {Event(Some(Chiefs), <<Some(Chiefs), Some(Broncos)>>, Some(1),
           <<Book(FanDuel, <<H2H>>), Book(Pinnacle, ms)>>) : ms \in ExtractMarketLists}
    \cup {Event(None, <<Some(Chiefs), Some(Broncos)>>, Some(1), <<Book(Pinnacle, <<H2H>>)>>),
          Event(Some(Chiefs), <<Some(Chiefs)>>, Some(1), <<Book(Pinnacle, <<H2H>>)>>),
          Event(Some(Chiefs), <<Some(Chiefs), Some(Broncos)>>, Some(1), <<>>)}

NormIdle == name = None /\ normalized = <<>>

ExtractIdle == events = <<>>

EnrichIdle ==
    /\ schedule = Frame({}, <<>>)
    /\ api_key = None
    /\ historical_csv = None
    /\ sched = Frame({}, <<>>)
    /\ response = None
    /\ calls = 0
    /\ merged = Frame({}, <<>>)
    /\ file = None
    /\ reads = 0
    /\ hist = None
    /\ error = None

(***************************************************************************)
(* _normalize_team applied to a name, then to its own result.              *)
(***************************************************************************)
InitNorm ==
    /\ name \in NormInputs
    /\ normalized = <<>>
    /\ pc = "normalize"
    /\ bookmaker_preference = None
    /\ latest = Frame({}, <<>>)
    /\ ExtractIdle
    /\ EnrichIdle

NormalizeTeam ==
    /\ pc = "normalize"
    /\ Len(normalized) < 2
    /\ normalized' = Append(normalized,
                            _normalize_team(IF normalized = <<>> THEN name
                                            ELSE normalized[Len(normalized)]))
    /\ UNCHANGED <<name, pc, bookmaker_preference, latest, extractVars, enrichVars>>

NextNorm == NormalizeTeam

SpecNorm == InitNorm /\ [][NextNorm]_vars

(***************************************************************************)
(* _odds_json_to_frame applied to a payload.                               *)
(***************************************************************************)
InitExtract ==
    /\ events \in SeqsUpTo(ExtractEvents, MaxExtractEvents)
    /\ bookmaker_preference \in {None, Some(upper(Pinnacle))}
    /\ pc = "extract"
    /\ latest = Frame({}, <<>>)
    /\ NormIdle
    /\ EnrichIdle

OddsJsonToFrame ==
    /\ pc = "extract"
    /\ latest' = _odds_json_to_frame(events, bookmaker_preference)
    /\ pc' = "extracted"
    /\ UNCHANGED <<bookmaker_preference, normVars, extractVars, enrichVars>>

NextExtract == OddsJsonToFrame

SpecExtract == InitExtract /\ [][NextExtract]_vars

(***************************************************************************)
(* fetch_schedule_odds: inputs.                                            *)
(***************************************************************************)
Sunday == <<"S","u","n">>

ScheduleColumns == required \cup {"gameday"}

ScheduleRow(season, week, home, away) ==
    [season |-> Some(season), week |-> Some(week), home_team |-> Some(home),
     away_team |-> Some(away), gameday |-> Some(Sunday)]

\* rows with pairwise different keys; the first two share the team pair.
\* Every schedule carries the extra column gameday and lacks any subset of
\* the required columns.
ScheduleRows ==
    <<ScheduleRow(2023, 1, KAN, DEN), ScheduleRow(2023, 2, KC, DEN),
      ScheduleRow(2023, 1, DEN, KC)>>

RECURSIVE SubSeq2(_, _, _)
SubSeq2(s, I, i) ==
    IF i > Len(s) THEN <<>>
    ELSE (IF i \in I THEN <<s[i]>> ELSE <<>>) \o SubSeq2(s, I, i + 1)

Schedules ==
    {Project(Frame(ScheduleColumns, SubSeq2(ScheduleRows, I, 1)), cols) :
        I \in {J \in SUBSET (1..Len(ScheduleRows)) : Cardinality(J) \in 1..MaxSchedule},
        cols \in {ScheduleColumns \ D : D \in SUBSET required}}

ApiKeys == {Some(<<>>), Some(<<"k","e","y">>)}

HistoricalPaths == {None, Some(<<"l","i","n","e","s",".","c","s","v">>)}

GameBooks(markets) == <<Book(FanDuel, <<>>), Book(Pinnacle, markets)>>

\* one team pair: a moneyline quote, a later spread quote, a later record
\* without markets, and a record without markets or commence_time
ProviderEvents ==
    {Event(Some(Chiefs), <<Some(Chiefs), Some(Broncos)>>, Some(1), GameBooks(<<H2H>>)),
     Event(Some(Chiefs), <<Some(Chiefs), Some(Broncos)>>, Some(2),
           GameBooks(<<Market("spreads", <<Outcome(Chiefs, Some(-110), Some(-3))>>)>>)),
     Event(Some(Chiefs), <<Some(Chiefs), Some(Broncos)>>, Some(2), GameBooks(<<>>)),
     Event(Some(Chiefs), <<Some(Chiefs), Some(Broncos)>>, None, GameBooks(<<>>))}

Responses ==
    {[kind |-> k, data |-> <<>>] :
        k \in {"network_error", "http_error", "malformed_json", "malformed_payload"}}
    \cup {[kind |-> "ok", data |-> evs] : evs \in SeqsUpTo(ProviderEvents, MaxEvents)}

HistRow(season, week, home, away, spread, ml) ==
    [season |-> Some(season), week |-> Some(week), home_team |-> Some(home),
     away_team |-> Some(away), spread_line |-> spread, home_moneyline |-> ml,
     notes |-> None]

\* the first two rows share a key once the teams are normalised
HistRows ==
    {HistRow(2023, 1, KAN, DEN, Some(-7), None),
     HistRow(2023, 1, KC, DEN, Some(4), Some(-120)),
     HistRow(2023, 2, KC, DEN, None, None)}

HistColumns == required \cup {"spread_line", "home_moneyline", "notes"}

\* the same table under canonical names, under legacy names, and without "week"
LegacyName(c) ==
    IF c = "spread_line" THEN "spread" ELSE IF c = "home_moneyline" THEN "ml_home" ELSE c

Legacy(frame) ==
    Frame({LegacyName(c) : c \in frame.cols},
          [i \in 1..Len(frame.rows) |->
              [c \in {LegacyName(d) : d \in frame.cols} |->
                  frame.rows[i][CHOOSE d \in frame.cols : LegacyName(d) = c]]])

HistTables ==
    UNION {{Frame(HistColumns, rs), Legacy(Frame(HistColumns, rs)),
            Project(Frame(HistColumns, rs), HistColumns \ {"week"})} :
           rs \in SeqsUpTo(HistRows, MaxHistRows)}

Files ==
    {[exists |-> FALSE, readable |-> FALSE, table |-> Frame({}, <<>>)],
     [exists |-> TRUE, readable |-> FALSE, table |-> Frame({}, <<>>)]}
    \cup {[exists |-> TRUE, readable |-> TRUE, table |-> tb] : tb \in HistTables}

(***************************************************************************)
(* fetch_schedule_odds: the state machine.                                 *)
(***************************************************************************)
Init ==
    /\ schedule \in Schedules
    /\ api_key \in ApiKeys
    /\ historical_csv \in HistoricalPaths
    /\ bookmaker_preference = Some(Pinnacle)
    /\ pc = "validate"
    /\ sched = Frame({}, <<>>)
    /\ response = None
    /\ calls = 0
    /\ latest = Frame({}, <<>>)
    /\ merged = Frame({}, <<>>)
    /\ file = None
    /\ reads = 0
    /\ hist = None
    /\ error = None
    /\ NormIdle
    /\ ExtractIdle

\* lines 278-281
RaiseMissingColumns ==
    /\ pc = "validate"
    /\ missing_columns(schedule) # {}
    /\ error' = Some([type |-> "ValueError", columns |-> sorted(missing_columns(schedule))])
    /\ pc' = "raised"
    /\ UNCHANGED <<schedule, api_key, historical_csv, bookmaker_preference, sched,
                   response, calls, latest, merged, file, reads, hist, normVars, extractVars>>

\* lines 283-288
NormalizeSchedule ==
    /\ pc = "validate"
    /\ missing_columns(schedule) = {}
    /\ sched' = normalize_teams(schedule)
    /\ latest' = NoKeyFrame
    /\ pc' = "fetch"
    /\ UNCHANGED <<schedule, api_key, historical_csv, bookmaker_preference, response,
                   calls, merged, file, reads, hist, error, normVars, extractVars>>

\* lines 302-303
NoApiKey ==
    /\ pc = "fetch"
    /\ Falsy(api_key)
    /\ pc' = "merge"
    /\ UNCHANGED <<schedule, api_key, historical_csv, bookmaker_preference, sched,
                   response, calls, latest, merged, file, reads, hist, error,
                   normVars, extractVars>>

\* lines 289-301
FetchLatestOdds ==
    /\ pc = "fetch"
    /\ ~Falsy(api_key)
    /\ \E resp \in Responses :
          LET res == _fetch_latest_odds(resp, bookmaker_preference)
          IN  /\ response' = Some(resp)
              /\ latest' = IF res.raised THEN FailedFetchFrame ELSE res.frame
    /\ calls' = calls + 1
    /\ pc' = "merge"
    /\ UNCHANGED <<schedule, api_key, historical_csv, bookmaker_preference, sched,
                   merged, file, reads, hist, error, normVars, extractVars>>

\* lines 305-321
MergeLatest ==
    /\ pc = "merge"
    /\ \E d \in dedup(latest) :
          /\ latest' = d
          /\ merged' = live_merge(sched, d)
    /\ pc' = "backfill"
    /\ UNCHANGED <<schedule, api_key, historical_csv, bookmaker_preference, sched,
                   response, calls, file, reads, hist, error, normVars, extractVars>>

\* lines 323-350 with no historical path
FinishWithoutHistory ==
    /\ pc = "backfill"
    /\ Falsy(historical_csv)
    /\ merged' = finish(merged, None)
    /\ pc' = "done"
    /\ UNCHANGED <<schedule, api_key, historical_csv, bookmaker_preference, sched,
                   response, calls, latest, file, reads, hist, error, normVars, extractVars>>

\* lines 323-350 with a historical path: the file is whatever is on disk
FinishWithHistory ==
    /\ pc = "backfill"
    /\ ~Falsy(historical_csv)
    /\ \E f \in Files :
          LET res == _prepare_historical_lines(historical_csv, f)
          IN  /\ file' = Some(f)
              /\ reads' = IF f.exists THEN reads + 1 ELSE reads
              /\ IF res.raised
                 THEN /\ error' = Some([type |-> "read_csv", columns |-> <<>>])
                      /\ pc' = "raised"
                      /\ UNCHANGED <<merged, hist>>
                 ELSE /\ hist' = res.hist
                      /\ merged' = finish(merged, res.hist)
                      /\ pc' = "done"
                      /\ UNCHANGED error
    /\ UNCHANGED <<schedule, api_key, historical_csv, bookmaker_preference, sched,
                   response, calls, latest, normVars, extractVars>>

Next ==
    \/ RaiseMissingColumns
    \/ NormalizeSchedule
    \/ NoApiKey
    \/ FetchLatestOdds
    \/ MergeLatest
    \/ FinishWithoutHistory
    \/ FinishWithHistory

Spec == Init /\ [][Next]_vars

(***************************************************************************)
(* Properties of the team normaliser (SpecNorm).                           *)
(***************************************************************************)
Recognized(w) == w \in FullNames \/ upper(w) \in DOMAIN TEAM_ABBR_FIXES

\* C9: _normalize_team maps every full team name to its abbreviation,
\* returns null and every unrecognised string unchanged, and applying it to
\* its own result changes nothing.
C9_NormalizeIdempotentTotal ==
    /\ Len(normalized) >= 1 =>
          /\ (name # None /\ name[1] \in FullNames) =>
                 normalized[1] = Some(ODDS_TEAM_NAME_TO_ABBR[name[1]])
          /\ (name = None \/ ~Recognized(name[1])) => normalized[1] = name
    /\ Len(normalized) = 2 => normalized[2] = normalized[1]

C9_Witness ==
    /\ name = Some(<<"k","a","n">>)
    /\ Len(normalized) = 2
    /\ normalized[2] = Some(KC)

(***************************************************************************)
(* Properties of the market extractor (SpecExtract).                       *)
(***************************************************************************)
Skips(e) == Falsy(e.home_team) \/ Falsy(AwayFull(e)) \/ e.bookmakers = <<>>

RowIndex(i) == Cardinality({j \in 1..i : ~Skips(events[j])})

Cell(frame, r, c) == IF c \in frame.cols THEN r[c] ELSE None

PointOf(o) == IF o = None THEN None ELSE o[1].point

PriceOf(o) == IF o = None THEN None ELSE o[1].price

LineRule(r, market, first, second, line, first_odds, second_odds) ==
    market # None =>
        LET a == _find_outcome(market[1], first)
            b == _find_outcome(market[1], second)
        IN  /\ Cell(latest, r, line) = (IF PointOf(a) # None THEN PointOf(a) ELSE PointOf(b))
            /\ Cell(latest, r, first_odds) = PriceOf(a)
            /\ Cell(latest, r, second_odds) = PriceOf(b)

\* C8: in the chosen bookmaker's spreads market spread_line is the home
\* outcome's point when it reports one and otherwise the away outcome's
\* point (also when the home outcome is present without a point); likewise
\* total_line with Over before Under; each odds field is its own side's price.
C8_LineFromReportingSide ==
    pc = "extracted" =>
        \A i \in 1..Len(events) :
            ~Skips(events[i]) =>
                LET e == events[i]
                    r == latest.rows[RowIndex(i)]
                    bm == _select_bookmaker(e.bookmakers, bookmaker_preference)[1]
                IN  /\ LineRule(r, _find_market(bm, "spreads"), e.home_team[1],
                                AwayFull(e)[1], "spread_line",
                                "home_spread_odds", "away_spread_odds")
                    /\ LineRule(r, _find_market(bm, "totals"), Over, Under,
                                "total_line", "over_odds", "under_odds")

(***************************************************************************)
(* Properties of fetch_schedule_odds (Spec).                               *)
(***************************************************************************)
Returned == pc = "done"

RowsOf(frame) == {frame.rows[i] : i \in 1..Len(frame.rows)}

\* the frame right after the live merge (lines 313-321)
LiveMerged == live_merge(sched, latest)

\* the live-merge rows an output row stems from: same schedule columns
LiveRowsOf(r) == {l \in RowsOf(LiveMerged) : \A c \in sched.cols : l[c] = r[c]}

\* the rows of the prepared historical table with an output row's key
HistRowsOf(r) ==
    IF hist = None THEN {}
    ELSE {h \in RowsOf(hist[1]) : \A k \in required : h[k] = r[k]}

HistValue(h, c) == IF c \in hist[1].cols THEN h[c] ELSE None

FetchFailed == response # None /\ response[1].kind # "ok"

\* C1: odds_source is odds_api when the live feed supplied a value for the
\* row, historical when it supplied none and the historical table did, and
\* missing when neither did.
C1_SourceIsFirstSupplier ==
    Returned =>
        \A r \in RowsOf(merged) : \E l \in LiveRowsOf(r) :
            LET fromLive == \E c \in OddsCols : l[c] # None
                fromHist == \E c \in OddsCols : l[c] = None /\ r[c] # None
            IN  r["odds_source"] = Some(IF fromLive THEN "odds_api"
                                        ELSE IF fromHist THEN "historical"
                                        ELSE "missing")

\* C2: every odds value of every returned row is the live-merge value when
\* that is non-null, else the non-null historical value of a row with the
\* same key, else null.
C2_BackfillKeepsLiveValues ==
    Returned =>
        \A r \in RowsOf(merged) : \E l \in LiveRowsOf(r) :
            \/ /\ HistRowsOf(r) = {}
               /\ \A c \in OddsCols : r[c] = l[c]
            \/ \E h \in HistRowsOf(r) : \A c \in OddsCols :
                  r[c] = (IF l[c] # None THEN l[c] ELSE HistValue(h, c))

C2_Witness ==
    /\ Returned
    /\ \E r \in RowsOf(merged) : \E h \in HistRowsOf(r) :
          /\ r["spread_line"] = Some(-3)
          /\ h["spread_line"] = Some(4)
          /\ r["home_moneyline"] = Some(-120)
          /\ r["odds_source"] = Some("odds_api")

\* the live records as extracted, before dropna and deduplication
Extracted ==
    IF response = None \/ _fetch_latest_odds(response[1], bookmaker_preference).raised
    THEN NoKeyFrame
    ELSE _fetch_latest_odds(response[1], bookmaker_preference).frame

\* C3: after deduplication each team pair of the live set has exactly one
\* record, the one with the latest commence_time of the pair, null
\* commence_times included in the set.
C3_DedupKeepsLatest ==
    pc \in {"backfill", "done", "raised"} /\ response # None =>
        \A e \in RowsOf(Extracted) :
            LET pair(r) == r["home_team"] = e["home_team"] /\ r["away_team"] = e["away_team"]
                group == {g \in RowsOf(Extracted) : pair(g)}
                timed == {g \in group : g["commence_time"] # None}
                kept == {i \in 1..Len(latest.rows) : pair(latest.rows[i])}
            IN  /\ Cardinality(kept) = 1
                /\ \A i \in kept :
                      /\ latest.rows[i] \in group
                      /\ timed # {} =>
                            /\ latest.rows[i] \in timed
                            /\ \A g \in timed :
                                  g["commence_time"][1] <= latest.rows[i]["commence_time"][1]

\* what _prepare_historical_lines yields for the file that was on disk
Prepared == _prepare_historical_lines(historical_csv, file[1])

\* C4: after a failed provider call the run makes no second call and ends as
\* the run with an empty key on the same schedule and historical file ends.
C4_FailedFetchIsHistoricalOnly ==
    FetchFailed =>
        /\ calls = 1
        /\ Returned =>
              merged = finish(live_merge(normalize_teams(schedule), NoKeyFrame),
                              IF file = None THEN None ELSE Prepared.hist)
        /\ pc = "raised" => file # None /\ Prepared.raised

C4_Witness ==
    /\ FetchFailed
    /\ Returned
    /\ \E r \in RowsOf(merged) :
          r["spread_line"] = Some(-7) /\ r["odds_source"] = Some("historical")

\* C5: a historical file that is absent, unreadable or without a key column
\* means no backfill: the call returns what it returns without a historical
\* path, and only the schedule validation error ever escapes.
C5_BadHistoryMeansNoBackfill ==
    /\ (error # None => error[1].type = "ValueError")
    /\ (file # None /\ (~file[1].exists \/ ~file[1].readable
                        \/ required \ rename(file[1].table).cols # {})) =>
           /\ Returned
           /\ merged = finish(LiveMerged, None)

\* C6: a schedule lacking required columns fails with the error naming
\* exactly the missing ones, before any provider call or file read; a
\* complete schedule never gets that error.
C6_MissingColumnsFailFirst ==
    /\ (pc # "validate" /\ required \ schedule.cols # {}) =>
           /\ pc = "raised"
           /\ error # None
           /\ error[1].type = "ValueError"
           /\ SeqToSet(error[1].columns) = required \ schedule.cols
           /\ Len(error[1].columns) = Cardinality(required \ schedule.cols)
           /\ calls = 0 /\ response = None
           /\ reads = 0 /\ file = None
    /\ required \subseteq schedule.cols =>
           (error = None \/ error[1].type # "ValueError")

C6_Witness ==
    /\ pc = "raised"
    /\ "gameday" \in schedule.cols
    /\ error = Some([type |-> "ValueError", columns |-> <<"season", "week">>])

\* C7: the returned columns are the schedule's columns, the eight odds
\* columns, odds_source and commence_time.
C7_FixedColumns ==
    Returned =>
        merged.cols = schedule.cols \cup OddsCols \cup {"odds_source", "commence_time"}

\* C10: the returned table has exactly one row per schedule row, in order.
C10_OneRowPerScheduleRow ==
    Returned =>
        /\ Len(merged.rows) = Len(schedule.rows)
        /\ \A i \in 1..Len(merged.rows) : \A c \in sched.cols :
              merged.rows[i][c] = sched.rows[i][c]

====
